---------------------------- MODULE Spec2Model ----------------------------
(***************************************************************************)
(* Model of rec_rsys: the similarity metrics (src/src/similarity.rs), the   *)
(* ranking helpers (src/src/utils.rs), the Item of src/src/models.rs, the   *)
(* KNN engine (src/src/algorithms/knn.rs) and the builder calls made on it  *)
(* by src/tests/algorithms/knn.rs and src/benches/knn.rs; also arhr         *)
(* (src/src/accuracy.rs), median (src/src/statistics.rs) and                *)
(* get_determinant (src/src/matrix.rs).                                     *)
(*                                                                          *)
(* Floating point numbers are modelled as sign-magnitude binary fixed-point *)
(* values with Scale units per 1.0, rounded to nearest (ties to even) after *)
(* every operation, together with signed zero, signed infinity and signed   *)
(* NaN, so that rounding, -0.0 and NaN take part in every comparison.       *)
(***************************************************************************)
EXTENDS Integers, Sequences, FiniteSets, TLC

VARIABLES
    pc,          \* position of the caller: which call has returned
    new_item,    \* KNN.new_item
    references,  \* KNN.references (the Vec<Item> handed to the ranking step)
    k,           \* KNN.k
    algo,        \* the SimilarityAlgos argument / the metric called
    formula,     \* function selected by get_formula
    reverse,     \* direction flag selected by get_formula / given by the caller
    out,         \* the Vec<Item> returned by the last call
    prev,        \* the Vec<Item> returned by the call before the last one
    vec1,        \* first vector handed to a metric; hits_ranks of arhr; data of median
    vec2,        \* second vector handed to a metric
    param,       \* extra arguments (order p and powf errors, bx and by, number_users)
    score,       \* value returned by the metric
    err,         \* error reported by the last call ("none" when it returned)
    limit,       \* the limit the caller of the ranking step holds, before `as u8`; the u32 of arhr
    eq,          \* results of the three == between Items
    hist,        \* the builder calls made on the configuration, in order
    held,        \* the copy of the configuration another caller holds; the matrix of get_determinant
    nan_sign     \* sign bit the build gives to a NaN an operation produces

vars == <<pc, new_item, references, k, algo, formula, reverse, out, prev,
          vec1, vec2, param, score, err, limit, eq, hist, held, nan_sign>>

---------------------------------------------------------------------------
(* Bounds of the model *)

MaxLen == 2      \* longest vector
MaxPool == 2     \* largest pool of the KNN engine
MaxCand == 3     \* longest candidate list handed to sort_and_trucate directly

\* A vector component is written as a count of ten-thousandths, the
\* precision of the literals of the test data: 9193 stands for 0.9193
Unit == 10000

Vals == {0, Unit}   \* vector components 0.0 and 1.0

---------------------------------------------------------------------------
(* Floating point *)

Scale == 32 * 32

Num(s, m) == [c |-> "num", s |-> s, m |-> m]
Inf(s) == [c |-> "inf", s |-> s, m |-> 0]
NaN(s) == [c |-> "nan", s |-> s, m |-> 0]

F(i) == IF i < 0 THEN Num(1, (0 - i) * Scale) ELSE Num(0, i * Scale)

Min(a, b) == IF a < b THEN a ELSE b

IsNaN(a) == a.c = "nan"
IsZero(a) == a.c = "num" /\ a.m = 0

Xor(s, t) == IF s = t THEN 0 ELSE 1

\* n / d rounded to nearest, ties to even (n >= 0, d > 0)
RoundDiv(n, d) ==
    LET q == n \div d
        r == n % d
    IN  IF 2 * r > d \/ (2 * r = d /\ q % 2 = 1) THEN q + 1 ELSE q

\* the float of the component c: the nearest representable value
Val(c) ==
    IF c < 0 THEN Num(1, RoundDiv((0 - c) * Scale, Unit))
    ELSE Num(0, RoundDiv(c * Scale, Unit))

RECURSIVE FloorSqrt(_, _, _)
FloorSqrt(n, lo, hi) ==
    IF lo >= hi THEN lo
    ELSE LET mid == (lo + hi + 1) \div 2
         IN  IF mid * mid <= n THEN FloorSqrt(n, mid, hi)
             ELSE FloorSqrt(n, lo, mid - 1)

\* sqrt(n) rounded to nearest
RoundSqrt(n) ==
    LET r == FloorSqrt(n, 0, IF n < 4 THEN n ELSE Min(n \div 2, 32768))
    IN  IF n - r * r > r THEN r + 1 ELSE r

Neg(a) == [a EXCEPT !.s = 1 - a.s]

Mul(a, b) ==
    IF IsNaN(a) THEN a
    ELSE IF IsNaN(b) THEN b
    ELSE IF a.c = "inf" \/ b.c = "inf"
         THEN IF IsZero(a) \/ IsZero(b) THEN NaN(0) ELSE Inf(Xor(a.s, b.s))
    ELSE Num(Xor(a.s, b.s), RoundDiv(a.m * b.m, Scale))

Div(a, b) ==
    IF IsNaN(a) THEN a
    ELSE IF IsNaN(b) THEN b
    ELSE IF a.c = "inf"
         THEN IF b.c = "inf" THEN NaN(0) ELSE Inf(Xor(a.s, b.s))
    ELSE IF b.c = "inf" THEN Num(Xor(a.s, b.s), 0)
    ELSE IF b.m = 0
         THEN IF a.m = 0 THEN NaN(0) ELSE Inf(Xor(a.s, b.s))
    ELSE Num(Xor(a.s, b.s), RoundDiv(a.m * Scale, b.m))

Add(a, b) ==
    IF IsNaN(a) THEN a
    ELSE IF IsNaN(b) THEN b
    ELSE IF a.c = "inf"
         THEN IF b.c = "inf" /\ a.s # b.s THEN NaN(0) ELSE a
    ELSE IF b.c = "inf" THEN b
    ELSE IF a.s = b.s THEN Num(a.s, a.m + b.m)
    ELSE IF a.m = b.m THEN Num(0, 0)
    ELSE IF a.m > b.m THEN Num(a.s, a.m - b.m)
    ELSE Num(b.s, b.m - a.m)

Sub(a, b) == Add(a, Neg(b))

Sqrt(a) ==
    IF IsNaN(a) THEN a
    ELSE IF IsZero(a) THEN a
    ELSE IF a.s = 1 THEN NaN(0)
    ELSE IF a.c = "inf" THEN a
    ELSE Num(0, RoundSqrt(a.m * Scale))

\* Iterator::sum over f32: a left fold of + from 0.0 (the identity of the
\* standard library the crate was written for)
RECURSIVE SumFrom(_, _, _)
SumFrom(acc, xs, i) ==
    IF i > Len(xs) THEN acc ELSE SumFrom(Add(acc, xs[i]), xs, i + 1)

Sum(xs) == SumFrom(F(0), xs, 1)

\* the pairs a zip of two slices yields: as many as the shorter slice has
Zip(x, y) == [i \in 1..Min(Len(x), Len(y)) |-> <<x[i], y[i]>>]

\* key of f32::total_cmp: the bits read as a sign-magnitude integer, with
\* -NaN < -inf < -x < -0 < +0 < +x < +inf < +NaN
InfKey == 1024 * 1024 * 1024
Bits(a) == IF a.c = "nan" THEN InfKey + 1 ELSE IF a.c = "inf" THEN InfKey ELSE a.m
TotalKey(a) == IF a.s = 0 THEN Bits(a) ELSE 0 - Bits(a) - 1

total_cmp(a, b) ==
    IF TotalKey(a) < TotalKey(b) THEN "Less"
    ELSE IF TotalKey(a) > TotalKey(b) THEN "Greater"
    ELSE "Equal"

\* the comparison operators of f32 (IEEE 754): false when a NaN takes part,
\* and -0.0 equals 0.0
NumKey(a) == IF a.c = "inf" THEN (IF a.s = 0 THEN InfKey ELSE 0 - InfKey)
             ELSE IF a.s = 0 THEN a.m ELSE 0 - a.m
FEq(a, b) == ~IsNaN(a) /\ ~IsNaN(b) /\ NumKey(a) = NumKey(b)
FLt(a, b) == ~IsNaN(a) /\ ~IsNaN(b) /\ NumKey(a) < NumKey(b)

---------------------------------------------------------------------------
(* models.rs *)

\* f32::NAN, the score of an Item built without one
F32_NAN == NaN(0)

Item_new(id, values, result) == [id |-> id, values |-> values, result |-> result]

\* Item::result(self, r): the item with its score replaced
Item_result(item, r) == [item EXCEPT !.result = r]

\* faulty variant: the equality #[derive(PartialEq)] would give, field by field
Item_eq_derived(self, other) ==
    /\ self.id = other.id
    /\ self.values = other.values
    /\ FEq(self.result, other.result)

\* impl PartialEq for Item: Item == Item
Item_eq(self, other) == self.id = other.id

\* impl PartialEq<Item> for &Item: `*self == other` compares two &Item, which
\* the standard library resolves to Item == Item
RefItem_eq_Item(self, other) == Item_eq(self, other)

\* impl PartialEq<&Item> for Item
Item_eq_RefItem(self, other) == self.id = other.id

---------------------------------------------------------------------------
(* utils.rs: ranking *)

\* the closure |item_a, item_b| item_a.result.total_cmp(&item_b.result)
compare_fn(item_a, item_b) == total_cmp(item_a.result, item_b.result)

\* slice::sort_by is a stable sort: each element is placed behind every
\* element already placed that does not compare Greater than it
\* faulty variant: an element is placed in front of the elements equal to it
RECURSIVE InsertSorted_before_equals(_, _, _, _)
InsertSorted_before_equals(sorted, x, i, rev) ==
    IF i = 0 THEN <<x>> \o sorted
    ELSE LET c == IF rev THEN compare_fn(x, sorted[i]) ELSE compare_fn(sorted[i], x)
         IN  IF c # "Less"
             THEN InsertSorted_before_equals(sorted, x, i - 1, rev)
             ELSE SubSeq(sorted, 1, i) \o <<x>> \o SubSeq(sorted, i + 1, Len(sorted))

\* faulty variant: an element takes the place of an element equal to it
RECURSIVE InsertSorted_replacing(_, _, _, _)
InsertSorted_replacing(sorted, x, i, rev) ==
    IF i = 0 THEN <<x>> \o sorted
    ELSE LET c == IF rev THEN compare_fn(x, sorted[i]) ELSE compare_fn(sorted[i], x)
         IN  IF c = "Greater"
             THEN InsertSorted_replacing(sorted, x, i - 1, rev)
             ELSE IF c = "Equal"
             THEN SubSeq(sorted, 1, i - 1) \o <<x>> \o SubSeq(sorted, i + 1, Len(sorted))
             ELSE SubSeq(sorted, 1, i) \o <<x>> \o SubSeq(sorted, i + 1, Len(sorted))

RECURSIVE InsertSorted(_, _, _, _)
InsertSorted(sorted, x, i, rev) ==
    IF i = 0 THEN <<x>> \o sorted
    ELSE LET c == IF rev THEN compare_fn(x, sorted[i]) ELSE compare_fn(sorted[i], x)
         IN  IF c = "Greater"
             THEN InsertSorted(sorted, x, i - 1, rev)
             ELSE SubSeq(sorted, 1, i) \o <<x>> \o SubSeq(sorted, i + 1, Len(sorted))

RECURSIVE sort_by(_, _, _)
sort_by(v, n, rev) ==
    IF n = 0 THEN <<>>
    ELSE LET s == sort_by(v, n - 1, rev)
         IN  InsertSorted(s, v[n], Len(s), rev)

Reversed(v) == [i \in 1..Len(v) |-> v[Len(v) + 1 - i]]

\* faulty variant: descending order obtained by reversing the ascending sort
sort_with_direction_reversing(v, rev) ==
    IF rev THEN Reversed(sort_by(v, Len(v), FALSE)) ELSE sort_by(v, Len(v), FALSE)

\* faulty variant: the direction flag is ignored
sort_with_direction_ascending(v, rev) == sort_by(v, Len(v), FALSE)

sort_with_direction(v, rev) ==
    IF rev THEN sort_by(v, Len(v), TRUE) ELSE sort_by(v, Len(v), FALSE)

\* faulty variant: the bound is taken as inclusive
truncate_inclusive(v, len) == SubSeq(v, 1, Min(len + 1, Len(v)))

\* faulty variant: the bound is taken as exclusive
truncate_exclusive(v, len) == SubSeq(v, 1, Min(len - 1, Len(v)))

\* Vec::truncate(len): keeps the first len elements, no effect when len >= v.len()
truncate(v, len) == SubSeq(v, 1, Min(len, Len(v)))

\* faulty variant: truncate before sorting
utils_sort_and_trucate_early(best_matches, rev, kk) ==
    sort_with_direction(truncate(best_matches, kk), rev)

utils_sort_and_trucate(best_matches, rev, kk) ==
    truncate(sort_with_direction(best_matches, rev), kk)

---------------------------------------------------------------------------
(* utils.rs: arithmetic over vectors.  A vector is a sequence of           *)
(* components, each standing for the float Val gives it.                    *)

dot(x, y) ==
    LET z == Zip(x, y)
    IN  Sum([i \in 1..Len(z) |-> Mul(Val(z[i][1]), Val(z[i][2]))])

\* faulty variant: the square root is not taken
euclidean_norm_squared(x) == Sum([i \in 1..Len(x) |-> Mul(Val(x[i]), Val(x[i]))])

euclidean_norm(x) == Sqrt(Sum([i \in 1..Len(x) |-> Mul(Val(x[i]), Val(x[i]))]))

squared_diff_sum(x, y) ==
    LET z == Zip(x, y)
        d(i) == Sub(Val(z[i][1]), Val(z[i][2]))
    IN  Sum([i \in 1..Len(z) |-> Mul(d(i), d(i))])

\* stable insertion of the pair <<index, value>> by value (partial_cmp)
RECURSIVE InsertIndexed(_, _, _)
InsertIndexed(sorted, p, i) ==
    IF i = 0 THEN <<p>> \o sorted
    ELSE IF sorted[i][2] > p[2] THEN InsertIndexed(sorted, p, i - 1)
    ELSE SubSeq(sorted, 1, i) \o <<p>> \o SubSeq(sorted, i + 1, Len(sorted))

RECURSIVE SortIndexed(_, _)
SortIndexed(x, n) ==
    IF n = 0 THEN <<>>
    ELSE LET s == SortIndexed(x, n - 1)
         IN  InsertIndexed(s, <<n - 1, x[n]>>, Len(s))

\* the (zero-based) indices that sort x, as floats
argsort(x) ==
    LET s == SortIndexed(x, Len(x))
    IN  [i \in 1..Len(s) |-> s[i][1] * Unit]

\* similarity.rs imports this name from utils, which holds it as argsort
rank_vector(x) == argsort(x)

---------------------------------------------------------------------------
(* statistics.rs *)

mean(data) == Div(Sum([i \in 1..Len(data) |-> Val(data[i])]), F(Len(data)))

\* f64::floor of a float that is not negative
Floor(a) == IF a.c = "num" THEN [a EXCEPT !.m = a.m - (a.m % Scale)] ELSE a

\* `as usize` of a float that is a whole number and not negative
as_usize(a) == a.m \div Scale

\* the value at percentile pct of samples that are taken to be sorted;
\* <<>> stands for a panic (the index is out of bounds, or the length of
\* an empty vector less one overflows), <<f>> for the float f returned
percentile_of_sorted(sorted_samples, pct) ==
    LET sorted_len == Len(sorted_samples)
        rank == Mul(Div(F(pct), F(100)), F(sorted_len - 1))
        lrank == Floor(rank)
        n == as_usize(lrank)
        lo == Val(sorted_samples[n + 1])
    IN  IF sorted_len = 1 THEN <<Val(sorted_samples[1])>>
        ELSE IF sorted_len = 0 THEN <<>>
        ELSE IF pct = 100 THEN <<Val(sorted_samples[sorted_len])>>
        ELSE IF n + 2 > sorted_len THEN <<>>
        ELSE <<Add(lo, Mul(Sub(Val(sorted_samples[n + 2]), lo), Sub(rank, lrank)))>>

median(data) == percentile_of_sorted(data, 50)

---------------------------------------------------------------------------
(* similarity.rs *)

\* faulty variant: the dot product is not divided by the norms
cosine_similarity_unnormalised(v1, v2) == dot(v1, v2)

cosine_similarity(v1, v2) ==
    Div(dot(v1, v2), Mul(euclidean_norm(v1), euclidean_norm(v2)))

adjusted_cosine_similarity(v1, v2) ==
    Div(dot(v1, v2), Mul(euclidean_norm(v1), euclidean_norm(v2)))

euclidean_distance(v1, v2) == Sqrt(squared_diff_sum(v1, v2))

pearson_correlation(v1, v2) ==
    LET mean_vec1 == mean(v1)
        mean_vec2 == mean(v2)
        z == Zip(v1, v2)
        deviation_x(i) == Sub(Val(z[i][1]), mean_vec1)
        deviation_y(i) == Sub(Val(z[i][2]), mean_vec2)
        covariance == Sum([i \in 1..Len(z) |-> Mul(deviation_x(i), deviation_y(i))])
        variance_x == Sum([i \in 1..Len(z) |-> Mul(deviation_x(i), deviation_x(i))])
        variance_y == Sum([i \in 1..Len(z) |-> Mul(deviation_y(i), deviation_y(i))])
    IN  Div(covariance, Mul(Sqrt(variance_x), Sqrt(variance_y)))

pearson_baseline_similarity(v1, v2, bx, by) ==
    LET z == Zip(v1, v2)
        x_bx(i) == Sub(Val(z[i][1]), Val(bx))
        y_by(i) == Sub(Val(z[i][2]), Val(by))
        numerator == Sum([i \in 1..Len(z) |-> Mul(x_bx(i), y_by(i))])
        denominator_x == Sum([i \in 1..Len(z) |-> Mul(x_bx(i), x_bx(i))])
        denominator_y == Sum([i \in 1..Len(z) |-> Mul(y_by(i), y_by(i))])
    IN  Div(numerator, Mul(Sqrt(denominator_x), Sqrt(denominator_y)))

msd(x, y) == Div(squared_diff_sum(x, y), F(Len(x)))

\* faulty variant: the 1 is not added to the mean squared difference
msd_similarity_unshifted(x, y) == Div(F(1), msd(x, y))

msd_similarity(x, y) == Div(F(1), Add(msd(x, y), F(1)))

\* faulty variant: the sum of squared differences is weighted by 12
spearman_correlation_twelve(x, y) ==
    LET n == F(Len(x))
    IN  Sub(F(1),
            Div(Mul(F(12), squared_diff_sum(rank_vector(x), rank_vector(y))),
                Mul(n, Sub(Mul(n, n), F(1)))))

spearman_correlation(x, y) ==
    LET n == F(Len(x))
    IN  Sub(F(1),
            Div(Mul(F(6), squared_diff_sum(rank_vector(x), rank_vector(y))),
                Mul(n, Sub(Mul(n, n), F(1)))))

\* a.powf(p) and a.powf(1/p) for the orders p = 1 and p = 2
\* f64::powf has unspecified precision (it is the platform's pow): where the
\* exact power is not a float, the result is one of the two floats that
\* enclose it, the nearest one (0) or the other one (1), chosen anew at
\* every call
PowfErrors == {0, 1}

\* the float with magnitude near, or the other end of [lo, lo + 1]
Faithful(lo, near, e) ==
    Num(0, IF e = 0 THEN near ELSE IF near = lo THEN lo + 1 ELSE lo)

\* a.powf(p) for p = 1.0 and p = 2.0, with the error e of this call
Powf(a, p, e) ==
    IF p = 1 THEN a
    ELSE IF a.c = "num" /\ (a.m * a.m) % Scale # 0
         THEN Faithful((a.m * a.m) \div Scale, RoundDiv(a.m * a.m, Scale), e)
    ELSE Mul(a, a)

\* a.powf(1.0 / p) for p = 1.0 and p = 2.0, with the error e of this call
Root(a, p, e) ==
    LET n == a.m * Scale
        lo == FloorSqrt(n, 0, IF n < 4 THEN n ELSE Min(n \div 2, 32768))
    IN  IF p = 1 THEN a
        ELSE IF a.c = "num" /\ a.s = 0 /\ lo * lo # n
             THEN Faithful(lo, RoundSqrt(n), e)
        ELSE Sqrt(a)

Abs(a) == [a EXCEPT !.s = 0]

\* es[i] is the error of the i-th call of powf, the root being the last
minkowski_distance(x, y, p, es) ==
    LET z == Zip(x, y)
    IN  Root(Sum([i \in 1..Len(z) |->
                    Powf(Abs(Sub(Val(z[i][1]), Val(z[i][2]))), p, es[i])]),
             p, es[Len(z) + 1])

---------------------------------------------------------------------------
(* algorithms/knn.rs *)

SimilarityAlgos ==
    {"Cosine", "AdjustedCosine", "Euclidean", "PearsonCorrelation", "Spearman", "MSD"}

\* faulty variant: Spearman is given the function of PearsonCorrelation
get_formula_spearman_as_pearson(a) ==
    CASE a = "Cosine" -> <<"cosine_similarity", TRUE>>
      [] a = "AdjustedCosine" -> <<"adjusted_cosine_similarity", TRUE>>
      [] a = "Euclidean" -> <<"euclidean_distance", FALSE>>
      [] a = "PearsonCorrelation" -> <<"pearson_correlation", TRUE>>
      [] a = "Spearman" -> <<"pearson_correlation", TRUE>>
      [] a = "MSD" -> <<"msd_similarity", TRUE>>

\* faulty variant: Euclidean is given the direction of a similarity
get_formula_euclidean_descending(a) ==
    CASE a = "Cosine" -> <<"cosine_similarity", TRUE>>
      [] a = "AdjustedCosine" -> <<"adjusted_cosine_similarity", TRUE>>
      [] a = "Euclidean" -> <<"euclidean_distance", TRUE>>
      [] a = "PearsonCorrelation" -> <<"pearson_correlation", TRUE>>
      [] a = "Spearman" -> <<"spearman_correlation", TRUE>>
      [] a = "MSD" -> <<"msd_similarity", TRUE>>

get_formula(a) ==
    CASE a = "Cosine" -> <<"cosine_similarity", TRUE>>
      [] a = "AdjustedCosine" -> <<"adjusted_cosine_similarity", TRUE>>
      [] a = "Euclidean" -> <<"euclidean_distance", FALSE>>
      [] a = "PearsonCorrelation" -> <<"pearson_correlation", TRUE>>
      [] a = "Spearman" -> <<"spearman_correlation", TRUE>>
      [] a = "MSD" -> <<"msd_similarity", TRUE>>

\* a call through the function reference f
Call(f, v1, v2) ==
    CASE f = "cosine_similarity" -> cosine_similarity(v1, v2)
      [] f = "adjusted_cosine_similarity" -> adjusted_cosine_similarity(v1, v2)
      [] f = "euclidean_distance" -> euclidean_distance(v1, v2)
      [] f = "pearson_correlation" -> pearson_correlation(v1, v2)
      [] f = "spearman_correlation" -> spearman_correlation(v1, v2)
      [] f = "msd_similarity" -> msd_similarity(v1, v2)

Vectors == UNION {[1..n -> Vals] : n \in 0..MaxLen}

Formulas ==
    {"cosine_similarity", "adjusted_cosine_similarity", "euclidean_distance",
     "pearson_correlation", "spearman_correlation", "msd_similarity"}

\* the value of each function reference on each pair of vectors, tabulated
Formula == [t \in Formulas \X Vectors \X Vectors |-> Call(t[1], t[2], t[3])] @@ <<>>

\* the value f returns on (v1, v2): looked up when tabulated
Score(f, v1, v2) ==
    IF Len(v1) <= MaxLen /\ Len(v2) <= MaxLen /\ v1 \in Vectors /\ v2 \in Vectors
    THEN Formula[<<f, v1, v2>>]
    ELSE Call(f, v1, v2)

\* The sign bit of a NaN that an operation produces is not fixed by the
\* language: ns is the sign the build gives it.
Signed(r, ns) == IF IsNaN(r) THEN NaN(ns) ELSE r

sort_and_trucate(best_matches, rev, kk) ==
    truncate(sort_with_direction(best_matches, rev), kk)

\* faulty variant: a candidate that carries a score keeps it
best_matches_of_keeping_given(self, f, ns) ==
    [i \in 1..Len(self.references) |->
        IF IsNaN(self.references[i].result)
        THEN Item_result(self.references[i],
                         Signed(Score(f, self.new_item.values, self.references[i].values), ns))
        ELSE self.references[i]]

\* faulty variant: best_matches is not a fresh Vec in each call, the items
\* of the last result are still in it
best_matches_of_retained(self, f, ns) ==
    out \o [i \in 1..Len(self.references) |->
               Item_result(self.references[i],
                           Signed(Score(f, self.new_item.values, self.references[i].values), ns))]

\* the Vec<Item> built by the loop of KNN::vectors_comparaison
best_matches_of(self, f, ns) ==
    [i \in 1..Len(self.references) |->
        Item_result(self.references[i],
                    Signed(Score(f, self.new_item.values, self.references[i].values), ns))]

\* faulty variant: knn sorts the best score first whatever `reverse` says
knn_always_descending(new_input, refs, kk, f, rev, ns) ==
    sort_and_trucate(
        [i \in 1..Len(refs) |->
            [refs[i] EXCEPT !.result = Signed(Score(f, new_input.values, refs[i].values), ns)]],
        TRUE, kk)

\* knn(): the owned references, each with its score overwritten
knn(new_input, refs, kk, f, rev, ns) ==
    sort_and_trucate(
        [i \in 1..Len(refs) |->
            [refs[i] EXCEPT !.result = Signed(Score(f, new_input.values, refs[i].values), ns)]],
        rev, kk)

---------------------------------------------------------------------------
(* Inputs *)

\* each candidate carries a score of its own on input, as in setup()
GivenResult(i) == F(i)

Pools ==
    UNION {{[i \in 1..n |-> Item_new(i, vs[i], GivenResult(i))] : vs \in [1..n -> Vectors]}
           : n \in 0..MaxPool}

\* the queries are the vectors of the two largest lengths, so that a pool
\* holds candidates shorter than, as long as and longer than a query
Queries == {v \in Vectors : Len(v) >= MaxLen - 1}

\* k is a u8; the model stops at the size of the largest pool
KValues == 0..MaxPool

NoItem == Item_new(0, <<>>, F32_NAN)

\* setup() of tests/algorithms/knn.rs: ten items, each with a score given
setup ==
    << Item_new(1, <<9193, 9097, 4990, 3292, 8811>>, Val(9100)),
       Item_new(2, <<9826, 9977, 6924, 7509, 7644>>, Val(9800)),
       Item_new(3, <<4817, 7548, 1974, 2229, 1256>>, Val(4800)),
       Item_new(4, <<9376, 4734, 2254, 9728, 8401>>, Val(9300)),
       Item_new(5, <<7429, 3250, 5680, 2614, 4483>>, Val(7400)),
       Item_new(6, <<686, 9531, 3464, 6426, 1746>>, Val(600)),
       Item_new(7, <<2442, 3728, 3096, 1398, 8162>>, Val(2400)),
       Item_new(8, <<3682, 9574, 486, 8852, 1986>>, Val(3600)),
       Item_new(9, <<3455, 2594, 7464, 489, 4088>>, Val(3400)),
       Item_new(10, <<7193, 4097, 6990, 3292, 8811>>, Val(7100)) >>

---------------------------------------------------------------------------
(* The KNN engine *)

Init ==
    /\ pc = "new"
    /\ new_item \in {Item_new(0, v, F32_NAN) : v \in Queries}
    /\ references \in Pools
    /\ k \in KValues
    /\ algo = "none"
    /\ formula = "none"
    /\ reverse = FALSE
    /\ out = <<>>
    /\ prev = <<>>
    /\ vec1 = <<>>
    /\ vec2 = <<>>
    /\ param = <<>>
    /\ score = F32_NAN
    /\ err = "none"
    /\ limit = 0
    /\ eq = <<>>
    /\ hist = <<>>
    /\ held = <<>>
    /\ nan_sign = 0

self_knn == [new_item |-> new_item, references |-> references, k |-> k]

\* the signs a NaN score can come out with; one case when no score is NaN
NaNSigns(f) ==
    IF \E i \in 1..Len(references) :
           IsNaN(Score(f, new_item.values, references[i].values))
    THEN {0, 1}
    ELSE {0}

vectors_comparaison ==
    /\ pc = "new"
    /\ \E a \in SimilarityAlgos :
         LET fr == get_formula(a)
         IN  /\ algo' = a
             /\ formula' = fr[1]
             /\ reverse' = fr[2]
             /\ \E ns \in NaNSigns(fr[1]) :
                  out' = sort_and_trucate(best_matches_of(self_knn, fr[1], ns), fr[2], k)
    /\ pc' = "vectors_comparaison"
    /\ err' = "none"
    /\ UNCHANGED <<new_item, references, k, prev, vec1, vec2, param, score,
                   limit, eq, hist, held, nan_sign>>

euclidean_knn ==
    /\ pc = "new"
    /\ \E ns \in NaNSigns("euclidean_distance") :
         out' = knn(new_item, references, k, "euclidean_distance", FALSE, ns)
    /\ formula' = "euclidean_distance"
    /\ reverse' = FALSE
    /\ pc' = "euclidean_knn"
    /\ err' = "none"
    /\ UNCHANGED <<new_item, references, k, algo, prev, vec1, vec2, param,
                   score, limit, eq, hist, held, nan_sign>>

cosine_knn ==
    /\ pc = "new"
    /\ \E ns \in NaNSigns("cosine_similarity") :
         out' = knn(new_item, references, k, "cosine_similarity", TRUE, ns)
    /\ formula' = "cosine_similarity"
    /\ reverse' = TRUE
    /\ pc' = "cosine_knn"
    /\ err' = "none"
    /\ UNCHANGED <<new_item, references, k, algo, prev, vec1, vec2, param,
                   score, limit, eq, hist, held, nan_sign>>

Next == vectors_comparaison \/ euclidean_knn \/ cosine_knn

Spec == Init /\ [][Next]_vars

---------------------------------------------------------------------------
(* The ranking step called on its own: utils::sort_and_trucate *)

\* scores a caller can hand in: -NaN, -1.0, -0.0, 0.0, 1.0 and NaN
RankScores == {NaN(1), F(-1), Num(1, 0), F(0), F(1), NaN(0)}

Candidates ==
    UNION {{[i \in 1..n |-> Item_new(i, <<>>, rs[i])] : rs \in [1..n -> RankScores]}
           : n \in 0..MaxCand}

\* the limits a caller holds as a signed integer: one negative, and 0..MaxCand
Limits == -1..MaxCand

\* faulty variant: a conversion that saturates at the ends of the u8 range
as_u8_saturating(n) == IF n < 0 THEN 0 ELSE Min(n, 255)

\* `n as u8`: the low eight bits
as_u8(n) == n % 256

InitRank ==
    /\ pc = "args"
    /\ new_item = NoItem
    /\ references \in Candidates
    /\ limit \in Limits
    /\ k = as_u8(limit)
    /\ algo = "none"
    /\ formula = "none"
    /\ reverse \in BOOLEAN
    /\ out = <<>>
    /\ prev = <<>>
    /\ vec1 = <<>>
    /\ vec2 = <<>>
    /\ param = <<>>
    /\ score = F32_NAN
    /\ err = "none"
    /\ eq = <<>>
    /\ hist = <<>>
    /\ held = <<>>
    /\ nan_sign = 0

\* sort_and_trucate(references, reverse, k)
rank ==
    /\ pc = "args"
    /\ out' = utils_sort_and_trucate(references, reverse, k)
    /\ pc' = "ranked"
    /\ err' = "none"
    /\ UNCHANGED <<new_item, references, k, algo, formula, reverse, prev,
                   vec1, vec2, param, score, limit, eq, hist, held, nan_sign>>

\* sort_and_trucate(out, reverse, k): the step applied to its own output
rerank ==
    /\ pc = "ranked"
    /\ prev' = out
    /\ out' = utils_sort_and_trucate(out, reverse, k)
    /\ pc' = "reranked"
    /\ err' = "none"
    /\ UNCHANGED <<new_item, references, k, algo, formula, reverse, vec1,
                   vec2, param, score, limit, eq, hist, held, nan_sign>>

NextRank == rank \/ rerank

SpecRank == InitRank /\ [][NextRank]_vars

---------------------------------------------------------------------------
(* The metrics called on their own *)

Metrics ==
    {"cosine_similarity", "adjusted_cosine_similarity", "euclidean_distance",
     "pearson_correlation", "pearson_baseline_similarity", "msd_similarity",
     "spearman_correlation", "minkowski_distance"}

Params(m) ==
    CASE m = "minkowski_distance" ->
            {<<1, [i \in 1..MaxLen + 1 |-> 0]>>}
                \cup {<<2, es>> : es \in [1..MaxLen + 1 -> PowfErrors]}
      [] m = "pearson_baseline_similarity" -> Vals \X Vals
      [] OTHER -> {<<>>}

Metric(m, v1, v2, ps) ==
    CASE m = "minkowski_distance" -> minkowski_distance(v1, v2, ps[1], ps[2])
      [] m = "pearson_baseline_similarity" -> pearson_baseline_similarity(v1, v2, ps[1], ps[2])
      [] OTHER -> Call(m, v1, v2)

\* a component so small that its square rounds to 0.0, as the square of
\* 1e-23 does in f32: 0.001, the smallest positive float of the model
Tiny == 10

\* the vectors handed to a metric called on its own
MetricVectors == UNION {[1..n -> Vals \cup {Tiny}] : n \in 0..MaxLen}

InitMetric ==
    /\ pc = "metric_args"
    /\ new_item = NoItem
    /\ references = <<>>
    /\ k = 0
    /\ algo \in Metrics
    /\ formula = "none"
    /\ reverse = FALSE
    /\ out = <<>>
    /\ prev = <<>>
    /\ vec1 \in MetricVectors
    /\ vec2 \in MetricVectors
    /\ param \in Params(algo)
    /\ score = F32_NAN
    /\ err = "none"
    /\ limit = 0
    /\ eq = <<>>
    /\ hist = <<>>
    /\ held = <<>>
    /\ nan_sign = 0

\* the metric runs to its end and returns a float: no metric has an error path
call_metric ==
    /\ pc = "metric_args"
    /\ \E ns \in {0, 1} : score' = Signed(Metric(algo, vec1, vec2, param), ns)
    /\ err' = "none"
    /\ pc' = "metric_returned"
    /\ UNCHANGED <<new_item, references, k, algo, formula, reverse, out,
                   prev, vec1, vec2, param, limit, eq, hist, held, nan_sign>>

NextMetric == call_metric

SpecMetric == InitMetric /\ [][NextMetric]_vars

---------------------------------------------------------------------------
(* The builder of the tests and benches: KNN::new(item, refs), then         *)
(* set_num_neighbors and set_algorithm, then result().  knn.rs does not     *)
(* define these four; they follow spec.md, section 4.3, and result() runs   *)
(* the body of vectors_comparaison.                                         *)

\* KNN::new(new_item, references): cosine similarity, as many neighbours as
\* there are references
KNN_new(item, refs) ==
    [new_item |-> item, references |-> refs, k |-> Len(refs), algorithm |-> "Cosine"]

\* faulty variant: setting k puts the metric back to the default
set_num_neighbors_resetting_metric(self, n) ==
    [self EXCEPT !.k = n, !.algorithm = "Cosine"]

set_num_neighbors(self, n) == [self EXCEPT !.k = n]

set_algorithm(self, a) == [self EXCEPT !.algorithm = a]

\* result(): vectors_comparaison with the metric the configuration holds
result(self, ns) ==
    LET fr == get_formula(self.algorithm)
    IN  sort_and_trucate(best_matches_of(self, fr[1], ns), fr[2], self.k)

\* pools of candidates whose vectors all have the length len
PoolsOf(len) ==
    UNION {{[i \in 1..n |-> Item_new(i, vs[i], F32_NAN)] : vs \in [1..n -> [1..len -> Vals]]}
           : n \in 0..MaxPool}

\* <<query, pool>>: a query of its own, a query that is a clone of a
\* candidate (refs[c].clone()), and the items of setup() with the first as query
BuilderInputs ==
    UNION {{<<Item_new(0, v, F32_NAN), refs>> : v \in [1..len -> Vals], refs \in PoolsOf(len)}
           : len \in 1..MaxLen}
    \cup UNION {UNION {{<<refs[c], refs>> : c \in 1..Len(refs)} : refs \in PoolsOf(len)}
                : len \in 1..MaxLen}
    \cup {<<setup[1], setup>>}

\* the counts handed to set_num_neighbors
NeighborCounts(refs) == 0..Min(Len(refs) + 1, MaxPool + 1)

self_builder ==
    [new_item |-> new_item, references |-> references, k |-> k, algorithm |-> algo]

InitBuilder ==
    /\ pc = "configured"
    /\ \E qp \in BuilderInputs :
         LET self == KNN_new(qp[1], qp[2])
         IN  /\ new_item = self.new_item
             /\ references = self.references
             /\ k = self.k
             /\ algo = self.algorithm
             /\ held = self
    /\ formula = "none"
    /\ reverse = FALSE
    /\ out = <<>>
    /\ prev = <<>>
    /\ vec1 = <<>>
    /\ vec2 = <<>>
    /\ param = <<>>
    /\ score = F32_NAN
    /\ err = "none"
    /\ limit = 0
    /\ eq = <<>>
    /\ hist = <<>>
    /\ nan_sign \in {0, 1}

Called(name) == \E i \in 1..Len(hist) : hist[i][1] = name

call_set_num_neighbors ==
    /\ pc = "configured"
    /\ ~Called("set_num_neighbors")
    /\ \E n \in NeighborCounts(references) :
         LET self == set_num_neighbors(self_builder, n)
         IN  /\ new_item' = self.new_item
             /\ references' = self.references
             /\ k' = self.k
             /\ algo' = self.algorithm
             /\ hist' = Append(hist, <<"set_num_neighbors", n>>)
    /\ UNCHANGED <<pc, formula, reverse, out, prev, vec1, vec2, param, score,
                   err, limit, eq, held, nan_sign>>

call_set_algorithm ==
    /\ pc = "configured"
    /\ ~Called("set_algorithm")
    /\ \E a \in SimilarityAlgos :
         LET self == set_algorithm(self_builder, a)
         IN  /\ new_item' = self.new_item
             /\ references' = self.references
             /\ k' = self.k
             /\ algo' = self.algorithm
             /\ hist' = Append(hist, <<"set_algorithm", a>>)
    /\ UNCHANGED <<pc, formula, reverse, out, prev, vec1, vec2, param, score,
                   err, limit, eq, held, nan_sign>>

\* result() borrows the configuration: it is called, and called again
call_result ==
    /\ pc \in {"configured", "result"}
    /\ pc' = IF pc = "configured" THEN "result" ELSE "result_again"
    /\ prev' = out
    /\ out' = result(self_builder, nan_sign)
    /\ formula' = get_formula(algo)[1]
    /\ reverse' = get_formula(algo)[2]
    /\ err' = "none"
    /\ UNCHANGED <<new_item, references, k, algo, vec1, vec2, param, score,
                   limit, eq, hist, held, nan_sign>>

NextBuilder == call_set_num_neighbors \/ call_set_algorithm \/ call_result

SpecBuilder == InitBuilder /\ [][NextBuilder]_vars

---------------------------------------------------------------------------
(* Items compared with == *)

\* items that agree or differ in each of their three fields
ComparedItems ==
    {Item_new(id, vs, r) : id \in {1, 2}, vs \in {<<>>, <<0>>, <<Unit>>}, r \in RankScores}

InitItem ==
    /\ pc = "items"
    /\ new_item \in ComparedItems
    /\ references \in {<<b>> : b \in ComparedItems}
    /\ k = 0
    /\ algo = "none"
    /\ formula = "none"
    /\ reverse = FALSE
    /\ out = <<>>
    /\ prev = <<>>
    /\ vec1 = <<>>
    /\ vec2 = <<>>
    /\ param = <<>>
    /\ score = F32_NAN
    /\ err = "none"
    /\ limit = 0
    /\ eq = <<>>
    /\ hist = <<>>
    /\ held = <<>>
    /\ nan_sign = 0

\* a == b, &a == b and a == &b
compare_items ==
    /\ pc = "items"
    /\ eq' = << Item_eq(new_item, references[1]),
                RefItem_eq_Item(new_item, references[1]),
                Item_eq_RefItem(new_item, references[1]) >>
    /\ pc' = "compared"
    /\ UNCHANGED <<new_item, references, k, algo, formula, reverse, out,
                   prev, vec1, vec2, param, score, err, limit, hist, held,
                   nan_sign>>

NextItem == compare_items

SpecItem == InitItem /\ [][NextItem]_vars

---------------------------------------------------------------------------
(* spearman_correlation on vectors of ranked values *)

MaxRank == 3     \* longest vector handed to spearman_correlation, and its largest value

\* vectors of the values 1.0, 2.0, ... with and without repeated values
RankedVectors == UNION {[1..n -> {r * Unit : r \in 1..MaxRank}] : n \in 0..MaxRank}

InitSpearman ==
    /\ pc = "spearman_args"
    /\ new_item = NoItem
    /\ references = <<>>
    /\ k = 0
    /\ algo = "spearman_correlation"
    /\ formula = "none"
    /\ reverse = FALSE
    /\ out = <<>>
    /\ prev = <<>>
    /\ vec1 \in RankedVectors
    /\ vec2 \in RankedVectors
    /\ param = <<>>
    /\ score = F32_NAN
    /\ err = "none"
    /\ limit = 0
    /\ eq = <<>>
    /\ hist = <<>>
    /\ held = <<>>
    /\ nan_sign \in {0, 1}

\* spearman_correlation(vec1, vec2); out keeps the two rank vectors it built
call_spearman ==
    /\ pc = "spearman_args"
    /\ out' = <<rank_vector(vec1), rank_vector(vec2)>>
    /\ score' = Signed(spearman_correlation(vec1, vec2), nan_sign)
    /\ err' = "none"
    /\ pc' = "spearman_returned"
    /\ UNCHANGED <<new_item, references, k, algo, formula, reverse, prev, vec1,
                   vec2, param, limit, eq, hist, held, nan_sign>>

NextSpearman == call_spearman

SpecSpearman == InitSpearman /\ [][NextSpearman]_vars

---------------------------------------------------------------------------
(* accuracy.rs: arhr, in u32 arithmetic *)

MaxHits == 3     \* longest vector of hit ranks
MaxHitRank == 3  \* largest rank of a hit
MaxUsers == 2    \* largest number of users

\* a / b of u32: None stands for the panic "attempt to divide by zero"
None == <<>>
Some(n) == <<n>>
checked_div(a, b) == IF b = 0 THEN None ELSE Some(a \div b)

RECURSIVE SumU32(_, _)
SumU32(s, i) == IF i > Len(s) THEN 0 ELSE s[i] + SumU32(s, i + 1)

\* hits_ranks.iter().map(|rank| 1 / rank).sum::<u32>() / number_users
arhr(hits_ranks, number_users) ==
    LET reciprocals == [i \in 1..Len(hits_ranks) |-> checked_div(1, hits_ranks[i])]
    IN  IF \E i \in 1..Len(hits_ranks) : reciprocals[i] = None THEN None
        ELSE checked_div(SumU32([i \in 1..Len(hits_ranks) |-> reciprocals[i][1]], 1),
                         number_users)

HitsRanks == UNION {[1..n -> 0..MaxHitRank] : n \in 0..MaxHits}

InitArhr ==
    /\ pc = "arhr_args"
    /\ new_item = NoItem
    /\ references = <<>>
    /\ k = 0
    /\ algo = "arhr"
    /\ formula = "none"
    /\ reverse = FALSE
    /\ out = <<>>
    /\ prev = <<>>
    /\ vec1 \in HitsRanks
    /\ vec2 = <<>>
    /\ param \in {<<number_users>> : number_users \in 0..MaxUsers}
    /\ score = F32_NAN
    /\ err = "none"
    /\ limit = 0
    /\ eq = <<>>
    /\ hist = <<>>
    /\ held = <<>>
    /\ nan_sign = 0

\* arhr(vec1, param[1]): limit is the u32 it returns, err its panic
call_arhr ==
    /\ pc = "arhr_args"
    /\ LET r == arhr(vec1, param[1])
       IN  IF r = None THEN limit' = 0 /\ err' = "divide_by_zero"
           ELSE limit' = r[1] /\ err' = "none"
    /\ pc' = "arhr_returned"
    /\ UNCHANGED <<new_item, references, k, algo, formula, reverse, out, prev,
                   vec1, vec2, param, score, eq, hist, held, nan_sign>>

NextArhr == call_arhr

SpecArhr == InitArhr /\ [][NextArhr]_vars

---------------------------------------------------------------------------
(* statistics.rs: median *)

\* the data handed to median: the values 0.0, 1.0, ... in every order
MedianData == UNION {[1..n -> {r * Unit : r \in 0..MaxRank}] : n \in 0..MaxRank}

InitMedian ==
    /\ pc = "median_args"
    /\ new_item = NoItem
    /\ references = <<>>
    /\ k = 0
    /\ algo = "median"
    /\ formula = "none"
    /\ reverse = FALSE
    /\ out = <<>>
    /\ prev = <<>>
    /\ vec1 \in MedianData
    /\ vec2 = <<>>
    /\ param = <<>>
    /\ score = F32_NAN
    /\ err = "none"
    /\ limit = 0
    /\ eq = <<>>
    /\ hist = <<>>
    /\ held = <<>>
    /\ nan_sign = 0

\* median(&vec1): score is the float it returns, err its panic
call_median ==
    /\ pc = "median_args"
    /\ LET r == median(vec1)
       IN  IF r = <<>> THEN score' = F32_NAN /\ err' = "panic"
           ELSE score' = r[1] /\ err' = "none"
    /\ pc' = "median_returned"
    /\ UNCHANGED <<new_item, references, k, algo, formula, reverse, out, prev,
                   vec1, vec2, param, limit, eq, hist, held, nan_sign>>

NextMedian == call_median

SpecMedian == InitMedian /\ [][NextMedian]_vars

---------------------------------------------------------------------------
(* matrix.rs: get_determinant.  A matrix is a sequence of rows of whole     *)
(* numbers; a result is <<f>> for the float f returned and <<>> for the     *)
(* panic of an index out of bounds.                                         *)

MaxEntry == 1    \* largest entry of a matrix; the smallest is -1

\* rows 1.. of matrix, each from column j on (j counted from 0)
create_submatrix(matrix, j) ==
    [row \in 1..Len(matrix) - 1 |->
        SubSeq(matrix[row + 1], j + 1, Len(matrix))]

\* (-1.0).powi(col)
powi_minus_one(col) == IF col % 2 = 0 THEN F(1) ELSE F(-1)

\* matrix[i][j], counted from 0: <<>> when the index is out of bounds
At(matrix, i, j) ==
    IF i < Len(matrix) /\ j < Len(matrix[i + 1]) THEN <<F(matrix[i + 1][j + 1])>>
    ELSE <<>>

RECURSIVE get_determinant(_)
RECURSIVE laplace_loop(_, _, _)

\* the loop of laplace_extension from column col on, det being the sum so far
laplace_loop(matrix, col, det) ==
    IF col >= Len(matrix) THEN <<det>>
    ELSE LET submatrix == create_submatrix(matrix, col)
             sign == powi_minus_one(col)
             submatrix_det == get_determinant(submatrix)
         IN  IF submatrix_det = <<>> THEN <<>>
             ELSE laplace_loop(matrix, col + 1,
                      Add(det, Mul(Mul(F(matrix[1][col + 1]), submatrix_det[1]), sign)))

laplace_extension(matrix) ==
    IF Len(matrix) = 1 THEN At(matrix, 0, 0)
    ELSE laplace_loop(matrix, 1, F(0))

get_determinant(matrix) ==
    CASE Len(matrix) = 1 -> At(matrix, 0, 0)
      [] Len(matrix) = 2 ->
            LET a == At(matrix, 0, 0)
                d == At(matrix, 1, 1)
                b == At(matrix, 0, 1)
                c == At(matrix, 1, 0)
            IN  IF <<>> \in {a, d, b, c} THEN <<>>
                ELSE <<Sub(Mul(a[1], d[1]), Mul(b[1], c[1]))>>
      [] Len(matrix) = 3 -> laplace_extension(matrix)
      [] OTHER -> <<F(0)>>

\* the square matrices of 1, 2 and 3 rows
Matrices == UNION {[1..n -> [1..n -> -1..MaxEntry]] : n \in 1..3}

InitDeterminant ==
    /\ pc = "determinant_args"
    /\ new_item = NoItem
    /\ references = <<>>
    /\ k = 0
    /\ algo = "get_determinant"
    /\ formula = "none"
    /\ reverse = FALSE
    /\ out = <<>>
    /\ prev = <<>>
    /\ vec1 = <<>>
    /\ vec2 = <<>>
    /\ param = <<>>
    /\ score = F32_NAN
    /\ err = "none"
    /\ limit = 0
    /\ eq = <<>>
    /\ hist = <<>>
    /\ held \in Matrices
    /\ nan_sign = 0

\* get_determinant(&held): score is the float it returns, err its panic
call_get_determinant ==
    /\ pc = "determinant_args"
    /\ LET r == get_determinant(held)
       IN  IF r = <<>> THEN score' = F32_NAN /\ err' = "index_out_of_bounds"
           ELSE score' = r[1] /\ err' = "none"
    /\ pc' = "determinant_returned"
    /\ UNCHANGED <<new_item, references, k, algo, formula, reverse, out, prev,
                   vec1, vec2, param, limit, eq, hist, held, nan_sign>>

NextDeterminant == call_get_determinant

SpecDeterminant == InitDeterminant /\ [][NextDeterminant]_vars

---------------------------------------------------------------------------
(* Properties *)

Descending == {"Cosine", "AdjustedCosine", "PearsonCorrelation", "Spearman", "MSD"}

Returned == pc = "vectors_comparaison"

\* C1: the sequence returned by KNN::vectors_comparaison is ordered best
\* first in the direction of the metric: along the result the scores never
\* increase for Cosine, AdjustedCosine, PearsonCorrelation, Spearman and MSD,
\* and never decrease for Euclidean (in the order of total_cmp, which is
\* the numeric order on numbers).
C1_BestFirst ==
    Returned =>
        \A i, j \in 1..Len(out) :
            i < j =>
                IF algo \in Descending
                THEN /\ total_cmp(out[i].result, out[j].result) # "Less"
                     /\ ~FLt(out[i].result, out[j].result)
                ELSE /\ algo = "Euclidean"
                     /\ total_cmp(out[i].result, out[j].result) # "Greater"
                     /\ ~FLt(out[j].result, out[i].result)

\* a Euclidean ranking that moved the second candidate in front of the first
C1_Witness ==
    /\ Returned
    /\ algo = "Euclidean"
    /\ Len(out) = 2
    /\ out[1].id = 2
    /\ FLt(out[1].result, out[2].result)

\* C2: the ranking step returns exactly min(k, n) of its n candidates, they
\* are the first min(k, n) items of the ranking obtained with k = n, in the
\* same order, and no candidate left out is strictly better than a returned one.
C2_TopKPrefix ==
    pc = "ranked" =>
        LET n == Len(references)
            m == Min(k, n)
            full == utils_sort_and_trucate(references, reverse, n)
            kept == {out[i].id : i \in 1..Len(out)}
        IN  /\ Len(out) = m
            /\ Len(full) = n
            /\ out = SubSeq(full, 1, m)
            /\ \A c \in 1..n : \A i \in 1..Len(out) :
                   references[c].id \notin kept =>
                       total_cmp(references[c].result, out[i].result)
                           # (IF reverse THEN "Greater" ELSE "Less")

\* a truncated ranking whose first item is not the first candidate
C2_Witness ==
    /\ pc = "ranked"
    /\ k >= 1
    /\ k < Len(references)
    /\ Len(out) = k
    /\ out[1].id # 1

\* C3 (as stated): two candidates with equal scores (==) keep their relative
\* input order, for both values of the direction flag.
C3_StableOnEqualScores ==
    pc = "ranked" =>
        \A i, j \in 1..Len(out) :
            (i < j /\ FEq(out[i].result, out[j].result)) => out[i].id < out[j].id

\* C3 (amended): two candidates whose scores are equal in the order the sort
\* uses (total_cmp: same sign and same value, so 0.0 and -0.0 are not equal)
\* keep their relative input order, for both values of the direction flag.
C3_StableOnTies ==
    pc = "ranked" =>
        \A i, j \in 1..Len(out) :
            (i < j /\ total_cmp(out[i].result, out[j].result) = "Equal")
                => out[i].id < out[j].id

\* a descending ranking that moved a candidate and holds a tie
C3_Witness ==
    /\ pc = "ranked"
    /\ reverse
    /\ Len(out) = 3
    /\ out[1].id = 2
    /\ out[2].id = 1
    /\ out[3].id = 3
    /\ total_cmp(out[2].result, out[3].result) = "Equal"

\* C4: with limit >= number of candidates the ranking step returns a
\* permutation of its input sorted by score: every input element is in the
\* output exactly once.
C4_Permutation ==
    (pc = "ranked" /\ k >= Len(references)) =>
        /\ Len(out) = Len(references)
        /\ \A c \in 1..Len(references) :
               Cardinality({i \in 1..Len(out) : out[i] = references[c]}) = 1
        /\ \A i \in 1..Len(out) :
               Cardinality({c \in 1..Len(references) : references[c] = out[i]}) = 1
        /\ \A i \in 1..(Len(out) - 1) :
               total_cmp(out[i].result, out[i + 1].result)
                   # (IF reverse THEN "Less" ELSE "Greater")

\* a full ranking of three candidates, two of them tied, in another order
C4_Witness ==
    /\ pc = "ranked"
    /\ Len(references) = 3
    /\ k >= 3
    /\ Len(out) = 3
    /\ out # references
    /\ \E i, j \in 1..3 : i # j /\ references[i].result = references[j].result

\* C5: the ranking step applied to its own output, with the same flag and
\* the same limit, returns that output unchanged.
C5_Idempotent == pc = "reranked" => out = prev

\* a second application after a first one that reordered and truncated
C5_Witness ==
    /\ pc = "reranked"
    /\ Len(references) = 3
    /\ k = 2
    /\ Len(prev) = 2
    /\ prev[1].id = 3
    /\ out = prev

\* C6: for both values of the direction flag a candidate whose score is NaN
\* is placed after every candidate whose score is a number, so it is
\* returned only when fewer than k candidates have a numeric score.
C6_NaNLast ==
    pc = "ranked" =>
        \A i \in 1..Len(out) :
            IsNaN(out[i].result) =>
                /\ \A j \in 1..Len(out) : j > i => IsNaN(out[j].result)
                /\ Cardinality({c \in 1..Len(references) : ~IsNaN(references[c].result)}) < k

\* C7: the selector fixes the function and the direction: Cosine,
\* AdjustedCosine, PearsonCorrelation, Spearman and MSD select their own
\* function and descending order, Euclidean selects euclidean_distance and
\* ascending order, the returned scores are values of the selected function,
\* and no two selectors select the same function.
C7_Selected(a) ==
    CASE a = "Cosine" -> <<"cosine_similarity", TRUE>>
      [] a = "AdjustedCosine" -> <<"adjusted_cosine_similarity", TRUE>>
      [] a = "PearsonCorrelation" -> <<"pearson_correlation", TRUE>>
      [] a = "Spearman" -> <<"spearman_correlation", TRUE>>
      [] a = "MSD" -> <<"msd_similarity", TRUE>>
      [] a = "Euclidean" -> <<"euclidean_distance", FALSE>>

C7_SelectorMapping ==
    Returned =>
        /\ <<formula, reverse>> = C7_Selected(algo)
        /\ \A i \in 1..Len(out) :
               \E ns \in {0, 1} :
                   out[i].result =
                       Signed(Formula[<<C7_Selected(algo)[1], new_item.values,
                                        references[out[i].id].values>>], ns)
        /\ \A a, b \in SimilarityAlgos :
               a # b => get_formula(a)[1] # get_formula(b)[1]

\* a Spearman ranking with a numeric score
C7_Witness ==
    /\ Returned
    /\ algo = "Spearman"
    /\ formula = "spearman_correlation"
    /\ reverse
    /\ Len(out) >= 1
    /\ ~IsNaN(out[1].result)

\* C8: a vector metric called with two vectors of different lengths fails
\* with a length-mismatch error and returns no score.
C8_LengthMismatchFails ==
    (pc = "metric_returned" /\ Len(vec1) # Len(vec2)) => err = "length_mismatch"

\* C9: when a candidate of the pool has a vector whose length differs from
\* the query's, the call ends in the length-mismatch error and returns no
\* ranked item.
C9_MismatchAbortsCall ==
    (Returned /\ \E c \in 1..Len(references) :
                    Len(references[c].values) # Len(new_item.values))
        => (err = "length_mismatch" /\ out = <<>>)

\* C10: for every metric and every query, the engine returns an empty
\* sequence without error when the pool is empty and when k = 0.
C10_EmptyResult ==
    (Returned /\ (references = <<>> \/ k = 0)) => (out = <<>> /\ err = "none")

\* k = 0 on a pool of two candidates
C10_Witness ==
    /\ Returned
    /\ k = 0
    /\ Len(references) = 2
    /\ out = <<>>
    /\ err = "none"

ResultReturned == pc \in {"result", "result_again"}

\* the score the configuration's metric gives candidate i of the pool
ScoreOf(f, i) == Signed(Score(f, new_item.values, references[i].values), nan_sign)

Setting(name, dflt) ==
    IF Called(name)
    THEN hist[CHOOSE i \in 1..Len(hist) : hist[i][1] = name][2]
    ELSE dflt

\* C12: set_num_neighbors changes k and nothing else, set_algorithm changes
\* the metric and nothing else, in either order of the two calls: the query
\* and the pool stay those of the construction, each setting holds the
\* argument of its own setter or else its default, and the copy of the
\* configuration that another caller holds stays as constructed.
C12_SettersFrame ==
    /\ new_item = held.new_item
    /\ references = held.references
    /\ held = KNN_new(new_item, references)
    /\ k = Setting("set_num_neighbors", held.k)
    /\ algo = Setting("set_algorithm", held.algorithm)

\* the metric was set first and k second, both away from their defaults
C12_Witness ==
    /\ Len(hist) = 2
    /\ hist[1][1] = "set_algorithm"
    /\ hist[2][1] = "set_num_neighbors"
    /\ algo = "Euclidean"
    /\ k # held.k
    /\ Len(references) = 2

KnnReturned == pc \in {"vectors_comparaison", "euclidean_knn", "cosine_knn"}

\* C13: every item returned by vectors_comparaison, euclidean_knn and
\* cosine_knn has the id and the values of one candidate of the pool, and
\* that candidate alone; its score is the selected function's value on the
\* query's values and the candidate's values, whatever score the candidate
\* carried on input; the query and the pool the caller handed in are as
\* they were.
C13_ScoredCopies ==
    KnnReturned =>
        /\ \A j \in 1..Len(out) :
             /\ \E i \in 1..Len(references) :
                  /\ out[j].id = references[i].id
                  /\ out[j].values = references[i].values
                  /\ \E ns \in {0, 1} :
                       out[j].result =
                           Signed(Score(formula, new_item.values, references[i].values), ns)
             /\ \A h \in 1..Len(out) : out[h].id = out[j].id => h = j
        /\ new_item.id = 0
        /\ new_item.result = F32_NAN
        /\ \A i \in 1..Len(references) :
             references[i].id = i /\ references[i].result = GivenResult(i)

\* two candidates that carried the scores 1.0 and 2.0 come back with other scores
C13_Witness ==
    /\ pc = "vectors_comparaison"
    /\ Len(out) = 2
    /\ \A j \in 1..2 : out[j].result # references[out[j].id].result
    /\ \A j \in 1..2 : out[j].values = references[out[j].id].values

\* the rounding allowed around 1.0, in units of the last place: the tests
\* expect 1.0000001, one unit above 1.0, for a vector against itself
Tol == 2

About1(a) == a.c = "num" /\ a.s = 0 /\ a.m >= Scale - Tol /\ a.m <= Scale + Tol

\* the pool holds a candidate with the id and the values of the query
QueryInPool ==
    \E c \in 1..Len(references) :
        references[c].id = new_item.id /\ references[c].values = new_item.values

QueryAt == CHOOSE c \in 1..Len(references) : references[c].id = new_item.id

NonZero(v) == \E i \in 1..Len(v) : v[i] # 0

SelfQueried == ResultReturned /\ algo = "Cosine" /\ k >= 1 /\ QueryInPool

C15_EqualIffSameId ==
    pc = "compared" =>
        \A j \in 1..3 : eq[j] = (new_item.id = references[1].id)

\* two items with the same id, different values and NaN scores are equal
C15_Witness ==
    /\ pc = "compared"
    /\ new_item.id = references[1].id
    /\ new_item.values # references[1].values
    /\ IsNaN(new_item.result)
    /\ IsNaN(references[1].result)
    /\ eq = <<TRUE, TRUE, TRUE>>

Ids(items) == [j \in 1..Len(items) |-> items[j].id]

\* the configuration of test_cosine_knn and test_euclidean_knn: the ten
\* items of setup(), the first of them as query, three neighbours
TestScenario ==
    /\ ResultReturned
    /\ references = setup
    /\ new_item = setup[1]
    /\ k = 3

\* C17: on the ten items of setup() with item 1 as query and k = 3,
\* result() returns the items 1, 2 and 10 in this order, with cosine
\* similarity and with the Euclidean distance alike; the first score is 1
\* up to rounding with cosine similarity and exactly 0.0 with the distance.
C17_TestNeighbours ==
    (TestScenario /\ algo \in {"Cosine", "Euclidean"}) =>
        /\ Ids(out) = <<1, 2, 10>>
        /\ algo = "Cosine" => About1(out[1].result)
        /\ algo = "Euclidean" => out[1].result = F(0)

\* test_euclidean_knn: set_num_neighbors(3), then set_algorithm(Euclidean)
C17_Witness ==
    /\ TestScenario
    /\ hist = << <<"set_num_neighbors", 3>>, <<"set_algorithm", "Euclidean">> >>
    /\ Ids(out) = <<1, 2, 10>>
    /\ out[1].result = F(0)
    /\ FLt(out[2].result, out[3].result)

Ranked == pc \in {"ranked", "reranked"}

CosineReturned ==
    pc = "metric_returned" /\ algo = "cosine_similarity" /\ Len(vec1) = Len(vec2)

\* the same result: the same number, or NaN on both sides
SameResult(a, b) == (IsNaN(a) /\ IsNaN(b)) \/ FEq(a, b)

\* C20 as stated: for vectors u and v of equal length cosine_similarity
\* gives the same result on (u, v) and on (v, u), and for every u that is
\* not the zero vector cosine_similarity(u, u) is 1 up to rounding.
C20_CosineSymmetricSelfOne ==
    CosineReturned =>
        /\ SameResult(score, cosine_similarity(vec2, vec1))
        /\ (vec1 = vec2 /\ NonZero(vec1)) => About1(score)

\* C20, amended: for vectors u and v of equal length cosine_similarity
\* gives the same result on (u, v) and on (v, u); cosine_similarity(u, u) is
\* NaN when the sum of the squares of u comes out as 0.0 (u is empty, is the
\* zero vector, or has components whose squares underflow) and is 1 up to
\* rounding for the other vectors of the model.
C20_CosineSymmetricSelfOneOrNaN ==
    CosineReturned =>
        /\ SameResult(score, cosine_similarity(vec2, vec1))
        /\ vec1 = vec2 =>
             IF IsZero(dot(vec1, vec1)) THEN IsNaN(score) ELSE About1(score)

\* cosine_similarity of (1.0, 1.0) with itself
C20_Witness ==
    /\ CosineReturned
    /\ vec1 = <<Unit, Unit>>
    /\ vec2 = vec1
    /\ About1(score)

MetricReturned(m) == pc = "metric_returned" /\ algo = m

\* C21: for all vectors u and v, euclidean_distance(u, v) is a number that
\* is not negative, and it is 0 exactly when u and v are equal element by
\* element.
C21_EuclidZeroIffEqual ==
    MetricReturned("euclidean_distance") =>
        /\ ~IsNaN(score)
        /\ ~FLt(score, F(0))
        /\ FEq(score, F(0)) <=> vec1 = vec2

NoTies(v) == \A i, j \in 1..Len(v) : v[i] = v[j] => i = j

InUnitRange(a) == a.c = "num" /\ ~FLt(a, F(-1)) /\ ~FLt(F(1), a)

SpearmanReturned == pc = "spearman_returned"

\* C22 as stated: for all vectors u and v without repeated values, of any
\* length the function accepts, spearman_correlation(u, v) is a number
\* in [-1, 1].
C22_SpearmanInRange ==
    (SpearmanReturned /\ NoTies(vec1) /\ NoTies(vec2)) => InUnitRange(score)

\* C22, amended: for vectors u and v of the same length n without repeated
\* values, spearman_correlation(u, v) is a number in [-1, 1] when n >= 2,
\* and NaN (0/0) when n is 0 or 1.
C22_SpearmanInRangeFromTwo ==
    (SpearmanReturned /\ NoTies(vec1) /\ NoTies(vec2) /\ Len(vec1) = Len(vec2)) =>
        IF Len(vec1) >= 2 THEN InUnitRange(score) ELSE IsNaN(score)

\* three values in opposite orders: the correlation -1
C22_Witness ==
    /\ SpearmanReturned
    /\ vec1 = <<Unit, 2 * Unit, 3 * Unit>>
    /\ vec2 = <<3 * Unit, 2 * Unit, Unit>>
    /\ score = F(-1)

\* the number of elements of x below x[i]: the position of x[i] in the
\* ascending order of x, counted from 0
Position(x, i) == Cardinality({j \in 1..Len(x) : x[j] < x[i]})

Ranks(x) == [i \in 1..Len(x) |-> Position(x, i) * Unit]

\* 1 - 6 * sum(d_i^2) / (n * (n^2 - 1)) with d_i the difference of the ranks
SpearmanOfRanks(x, y) ==
    LET n == F(Len(x))
    IN  Sub(F(1),
            Div(Mul(F(6), squared_diff_sum(Ranks(x), Ranks(y))),
                Mul(n, Sub(Mul(n, n), F(1)))))

\* C23: the rank vector spearman_correlation builds for x holds, at each
\* index i, the position of x[i] in the ascending order of x (counted from
\* 0 or from 1), and the result is 1 - 6*sum(d_i^2)/(n*(n^2-1)) with d_i
\* the difference between the rank of u[i] and the rank of v[i].
C23_RankIsSortedPosition ==
    (SpearmanReturned /\ NoTies(vec1) /\ NoTies(vec2) /\ Len(vec1) = Len(vec2)) =>
        /\ \E base \in {0, 1} : \A i \in 1..Len(vec1) :
               out[1][i] = (Position(vec1, i) + base) * Unit
        /\ SameResult(score, SpearmanOfRanks(vec1, vec2))

MsdReturned == MetricReturned("msd_similarity") /\ Len(vec1) = Len(vec2)

\* 0 < a <= 1
InZeroOne(a) == a.c = "num" /\ FLt(F(0), a) /\ ~FLt(F(1), a)

\* 1 / (sum of squared differences / n + 1)
MsdFormula(x, y) == Div(F(1), Add(Div(squared_diff_sum(x, y), F(Len(x))), F(1)))

\* C24 as stated: for all vectors u and v of equal length,
\* msd_similarity(u, v) = 1 / (msd(u, v) + 1) lies in (0, 1] and is 1
\* exactly when u and v are identical.
C24_MsdSimilarityBounded ==
    MsdReturned =>
        /\ SameResult(score, MsdFormula(vec1, vec2))
        /\ InZeroOne(score)
        /\ FEq(score, F(1)) <=> vec1 = vec2

\* C24, amended: for vectors u and v of equal length n,
\* msd_similarity(u, v) = 1 / (msd(u, v) + 1); for n = 0 it is NaN; for
\* n >= 1 it lies in (0, 1], it is 1 for identical vectors, and it is 1 for
\* other vectors too when their squared differences round away (here: when
\* their sum comes out as 0.0).
C24_MsdSimilarityBoundedNonEmpty ==
    MsdReturned =>
        /\ SameResult(score, MsdFormula(vec1, vec2))
        /\ IF Len(vec1) = 0 THEN IsNaN(score)
           ELSE /\ InZeroOne(score)
                /\ vec1 = vec2 => FEq(score, F(1))
                /\ FEq(score, F(1)) <=> IsZero(squared_diff_sum(vec1, vec2))

\* (1.0, 0.0) against (0.0, 1.0): mean squared difference 1, similarity 1/2
C24_Witness ==
    /\ MsdReturned
    /\ vec1 = <<Unit, 0>>
    /\ vec2 = <<0, Unit>>
    /\ InZeroOne(score)
    /\ FLt(score, F(1))

\* n - 1, clamped to zero when n = 0
CountLessOne(n) == IF n = 0 THEN 0 ELSE n - 1

\* pearson_correlation(u, v) * (n-1) / ((n-1) + shrinkage)
ShrunkPearson(u, v, shrinkage) ==
    LET n1 == F(CountLessOne(Len(u)))
    IN  Mul(pearson_correlation(u, v), Div(n1, Add(n1, Val(shrinkage))))

\* C25 as stated: pearson_baseline_similarity(u, v, shrinkage), the scalar
\* being the argument that follows the two vectors, equals
\* pearson_correlation(u, v) * (n-1)/((n-1)+shrinkage) with n = len(u) and
\* n-1 clamped to zero when n = 0.
C25_BaselineIsShrunkPearson ==
    (MetricReturned("pearson_baseline_similarity") /\ Len(vec1) = Len(vec2)) =>
        SameResult(score, ShrunkPearson(vec1, vec2, param[1]))

\* C26 as stated: for all vectors u and v of equal length,
\* minkowski_distance(u, v, 2) equals euclidean_distance(u, v).
C26_MinkowskiTwoIsEuclidean ==
    (MetricReturned("minkowski_distance") /\ param[1] = 2 /\ Len(vec1) = Len(vec2)) =>
        SameResult(score, euclidean_distance(vec1, vec2))

\* arhr was called with ranks counted from 1 and at least one user
ArhrReturned ==
    /\ pc = "arhr_returned"
    /\ \A i \in 1..Len(vec1) : vec1[i] >= 1
    /\ param[1] >= 1

RECURSIVE Product(_, _)
Product(s, i) == IF i > Len(s) THEN 1 ELSE s[i] * Product(s, i + 1)

\* the sum over the hits of 1/rank, as a count of (1 / Product(ranks, 1))-ths
ReciprocalSum(ranks) ==
    SumU32([i \in 1..Len(ranks) |-> Product(ranks, 1) \div ranks[i]], 1)

\* C27 as stated: arhr(hits_ranks, number_users) is the sum over the hits of
\* 1/rank_i, divided by number_users; a hit at any rank contributes a
\* positive amount, and a larger one the smaller its rank.
C27_ArhrIsMeanReciprocalRank ==
    ArhrReturned =>
        /\ err = "none"
        /\ limit * param[1] * Product(vec1, 1) = ReciprocalSum(vec1)
        /\ \A i \in 1..Len(vec1) : checked_div(1, vec1[i])[1] > 0
        /\ \A i, j \in 1..Len(vec1) :
              vec1[i] < vec1[j] => checked_div(1, vec1[i])[1] > checked_div(1, vec1[j])[1]

\* median was called on data that is not empty
MedianReturned == pc = "median_returned" /\ Len(vec1) >= 1

\* the values of x in ascending order
Ascending(x) == [i \in 1..Len(x) |-> SortIndexed(x, Len(x))[i][2]]

\* the middle value of x in ascending order, or the average of the two
\* middle values
MedianOf(x) ==
    LET s == Ascending(x)
        h == Len(x) \div 2
    IN  IF Len(x) % 2 = 1 THEN Val(s[h + 1])
        ELSE Div(Add(Val(s[h]), Val(s[h + 1])), F(2))

\* C28 as stated: median returns the middle value (odd length) or the
\* average of the two middle values (even length) of the data taken in
\* ascending order, whatever the order of the input.
C28_MedianOfAnyOrder ==
    MedianReturned => err = "none" /\ FEq(score, MedianOf(vec1))

DeterminantReturned == pc = "determinant_returned"

\* the determinant of a matrix of 1, 2 or 3 rows, by the rule of Sarrus
Determinant(m) ==
    CASE Len(m) = 1 -> m[1][1]
      [] Len(m) = 2 -> m[1][1] * m[2][2] - m[1][2] * m[2][1]
      [] Len(m) = 3 ->
            m[1][1] * m[2][2] * m[3][3] + m[1][2] * m[2][3] * m[3][1]
            + m[1][3] * m[2][1] * m[3][2] - m[1][3] * m[2][2] * m[3][1]
            - m[1][2] * m[2][1] * m[3][3] - m[1][1] * m[2][3] * m[3][2]

\* C29 as stated: on a matrix of 1, 2 or 3 rows and columns get_determinant
\* ends without a failure and returns the determinant of the matrix.
C29_DeterminantUpToThree ==
    DeterminantReturned =>
        err = "none" /\ FEq(score, F(Determinant(held)))

\* what KNN::new(new_item, references, k).vectors_comparaison(a) returns
\* when the build gives a NaN score the sign ns
ComparaisonOf(a, ns) ==
    sort_and_trucate(best_matches_of(self_knn, get_formula(a)[1], ns),
                     get_formula(a)[2], k)

\* C30: euclidean_knn(new_item, references, k) returns the sequence that
\* vectors_comparaison returns for Euclidean on the same query, pool and k,
\* and cosine_knn the one it returns for Cosine: the same items with the
\* same scores in the same order.
C30_KnnFunctionsAgree ==
    /\ pc = "euclidean_knn" =>
          \E ns \in NaNSigns("euclidean_distance") : out = ComparaisonOf("Euclidean", ns)
    /\ pc = "cosine_knn" =>
          \E ns \in NaNSigns("cosine_similarity") : out = ComparaisonOf("Cosine", ns)

\* euclidean_knn has ranked two candidates at different distances
C30_Witness ==
    /\ pc = "euclidean_knn"
    /\ Len(out) = 2
    /\ FLt(out[1].result, out[2].result)
    /\ out = ComparaisonOf("Euclidean", 0)

====
